---- MODULE Spec2Model ----
(***************************************************************************)
(* Model of pinto's project / environment lifecycle (pinto/project.py) and *)
(* of the pipeline runner (pinto/cli.py).                                  *)
(*                                                                         *)
(* Strings are sequences of one-character strings, so that str.split,      *)
(* string concatenation and the override argument are computed character   *)
(* by character.  An optional value (Python None or a value) is a sequence *)
(* of length at most one: NoneVal is <<>> and Some(v) is <<v>>.            *)
(***************************************************************************)
EXTENDS Integers, Sequences, FiniteSets, TLC

VARIABLES venv, config, status, i, error, parsed, resolved, executed, logged, last,
          heap, views

vars == <<venv, config, status, i, error, parsed, resolved, executed, logged, last,
          heap, views>>

\* the objects of a loaded configuration and the ones handed to callers
mem == <<heap, views>>

(***************************************************************************)
(* Bounds of the model.                                                    *)
(***************************************************************************)
\* longest list of pipeline steps
MaxSteps == 2
\* longest raw step string of a single-step pipeline
MaxStepLen == 5
\* most copies of a configuration handed to callers
MaxViews == 2

(***************************************************************************)
(* Strings and optional values.                                            *)
(***************************************************************************)
NoneVal == <<>>

Some(v) == <<v>>

Letters == {"a", "b"}

Chars == Letters \cup {":"}

\* the names a component, command or subcommand is drawn from
Names == {<<c>> : c \in Letters}

\* all strings over Chars of length n
RECURSIVE StringsOfLen(_)
StringsOfLen(n) ==
    IF n = 0 THEN {<<>>}
    ELSE {<<c>> \o s : c \in Chars, s \in StringsOfLen(n - 1)}

StringsUpTo(n) == UNION {StringsOfLen(k) : k \in 0..n}

\* all tuples of length n over the set S
RECURSIVE TuplesOfLen(_, _)
TuplesOfLen(S, n) ==
    IF n = 0 THEN {<<>>}
    ELSE {<<x>> \o t : x \in S, t \in TuplesOfLen(S, n - 1)}

TuplesUpTo(S, n) == UNION {TuplesOfLen(S, k) : k \in 0..n}

\* ":".join(fields)
RECURSIVE Join(_)
Join(fields) ==
    IF Len(fields) = 0 THEN <<>>
    ELSE IF Len(fields) = 1 THEN fields[1]
    ELSE fields[1] \o <<":">> \o Join(Tail(fields))

\* number of ":" characters of a string
RECURSIVE Colons(_)
Colons(s) ==
    IF s = <<>> THEN 0
    ELSE (IF Head(s) = ":" THEN 1 ELSE 0) + Colons(Tail(s))

(***************************************************************************)
(* Environment (pinto.env): the state of one project's environment is      *)
(* whether it exists and whether it contains the project.                  *)
(***************************************************************************)
EnvState == {e \in [exists : BOOLEAN, contains : BOOLEAN] : e.contains => e.exists}

Absent == [exists |-> FALSE, contains |-> FALSE]

EnvExists(e) == e.exists

EnvContains(e) == e.contains

\* create provisions a new, empty environment; create and install are
\* documented without a failure outcome, a non-zero exit only for run
EnvCreate(e) == [exists |-> TRUE, contains |-> FALSE]

EnvInstall(e) == [e EXCEPT !.contains = TRUE]

\* the outcomes of executing a command in the environment: the captured
\* standard output, or a non-zero exit
Stdouts == {<<"o", "k">>}

Outcomes == {[ok |-> TRUE, stdout |-> s] : s \in Stdouts}
            \cup {[ok |-> FALSE, stdout |-> <<>>]}

\* one call of an Environment method, with the environment's state at the call
Call(op, e, args) == [op |-> op, env |-> e, args |-> args]

(***************************************************************************)
(* Project.install                                                         *)
(***************************************************************************)
\* variant: reinstalls an installed project whatever force is
Install_AlwaysReinstall(e, force) ==
    LET c1 == <<Call("exists", e, <<>>)>>
        e1 == IF ~EnvExists(e) THEN EnvCreate(e) ELSE e
        c2 == IF ~EnvExists(e) THEN c1 \o <<Call("create", e, <<>>)>> ELSE c1
        c3 == c2 \o <<Call("contains", e1, <<>>)>>
    IN  [env |-> EnvInstall(e1),
         calls |-> c3 \o <<Call("install", e1, <<>>)>>,
         msg |-> IF ~EnvContains(e1) THEN "Installing" ELSE "Updating"]

\* variant: "if force" in place of "elif force"
Install_ForceAlso(e, force) ==
    LET c1 == <<Call("exists", e, <<>>)>>
        e1 == IF ~EnvExists(e) THEN EnvCreate(e) ELSE e
        c2 == IF ~EnvExists(e) THEN c1 \o <<Call("create", e, <<>>)>> ELSE c1
        c3 == c2 \o <<Call("contains", e1, <<>>)>>
        e2 == IF ~EnvContains(e1) THEN EnvInstall(e1) ELSE e1
        c4 == IF ~EnvContains(e1)
              THEN c3 \o <<Call("install", e1, <<>>)>>
              ELSE c3
    IN  IF force
        THEN [env |-> EnvInstall(e2),
              calls |-> c4 \o <<Call("install", e2, <<>>)>>,
              msg |-> "Updating"]
        ELSE [env |-> e2, calls |-> c4,
              msg |-> IF ~EnvContains(e1) THEN "Installing"
                      ELSE "already installed"]

\* variant: force is ignored, an installed project is never reinstalled
Install_NeverReinstall(e, force) ==
    LET c1 == <<Call("exists", e, <<>>)>>
        e1 == IF ~EnvExists(e) THEN EnvCreate(e) ELSE e
        c2 == IF ~EnvExists(e) THEN c1 \o <<Call("create", e, <<>>)>> ELSE c1
        c3 == c2 \o <<Call("contains", e1, <<>>)>>
    IN  IF ~EnvContains(e1)
        THEN [env |-> EnvInstall(e1),
              calls |-> c3 \o <<Call("install", e1, <<>>)>>,
              msg |-> "Installing"]
        ELSE [env |-> e1, calls |-> c3, msg |-> "already installed"]

\* variant: a forced update creates the environment anew before installing
Install_RecreateOnForce(e, force) ==
    LET c1 == <<Call("exists", e, <<>>)>>
        e1 == IF ~EnvExists(e) THEN EnvCreate(e) ELSE e
        c2 == IF ~EnvExists(e) THEN c1 \o <<Call("create", e, <<>>)>> ELSE c1
        c3 == c2 \o <<Call("contains", e1, <<>>)>>
    IN  IF ~EnvContains(e1)
        THEN [env |-> EnvInstall(e1),
              calls |-> c3 \o <<Call("install", e1, <<>>)>>,
              msg |-> "Installing"]
        ELSE IF force
        THEN [env |-> EnvInstall(EnvCreate(e1)),
              calls |-> c3 \o <<Call("create", e1, <<>>),
                                Call("install", EnvCreate(e1), <<>>)>>,
              msg |-> "Updating"]
        ELSE [env |-> e1, calls |-> c3, msg |-> "already installed"]

\* variant: create is called without the exists() check
Install_CreateAlways(e, force) ==
    LET e1 == EnvCreate(e)
        c2 == <<Call("create", e, <<>>)>>
        c3 == c2 \o <<Call("contains", e1, <<>>)>>
    IN  IF ~EnvContains(e1)
        THEN [env |-> EnvInstall(e1),
              calls |-> c3 \o <<Call("install", e1, <<>>)>>,
              msg |-> "Installing"]
        ELSE IF force
        THEN [env |-> EnvInstall(e1),
              calls |-> c3 \o <<Call("install", e1, <<>>)>>,
              msg |-> "Updating"]
        ELSE [env |-> e1, calls |-> c3, msg |-> "already installed"]

Install(e, force) ==
    LET c1 == <<Call("exists", e, <<>>)>>
        e1 == IF ~EnvExists(e) THEN EnvCreate(e) ELSE e
        c2 == IF ~EnvExists(e) THEN c1 \o <<Call("create", e, <<>>)>> ELSE c1
        c3 == c2 \o <<Call("contains", e1, <<>>)>>
    IN  IF ~EnvContains(e1)
        THEN [env |-> EnvInstall(e1),
              calls |-> c3 \o <<Call("install", e1, <<>>)>>,
              msg |-> "Installing"]
        ELSE IF force
        THEN [env |-> EnvInstall(e1),
              calls |-> c3 \o <<Call("install", e1, <<>>)>>,
              msg |-> "Updating"]
        ELSE [env |-> e1, calls |-> c3, msg |-> "already installed"]

(***************************************************************************)
(* Project.run                                                             *)
(***************************************************************************)
\* variant: the command is executed without the install check
Run_NoInstall(e, args, outcome) ==
    [env |-> e,
     calls |-> <<Call("run", e, args)>>,
     ok |-> outcome.ok,
     returned |-> IF outcome.ok THEN Some(outcome.stdout) ELSE NoneVal,
     msg |-> "none"]

\* variant: "and" in place of "or" in the install check
Run_AndGuard(e, args, outcome) ==
    LET c1 == IF EnvExists(e)
              THEN <<Call("exists", e, <<>>)>>
              ELSE <<Call("exists", e, <<>>), Call("contains", e, <<>>)>>
        needs == ~EnvExists(e) /\ ~EnvContains(e)
        inst == Install(e, FALSE)
        e1 == IF needs THEN inst.env ELSE e
        c2 == IF needs THEN c1 \o inst.calls ELSE c1
    IN  [env |-> e1,
         calls |-> c2 \o <<Call("run", e1, args)>>,
         ok |-> outcome.ok,
         returned |-> IF outcome.ok THEN Some(outcome.stdout) ELSE NoneVal,
         msg |-> IF needs THEN inst.msg ELSE "none"]

\* variant: install(force=True) is called before every command
Run_ForceInstall(e, args, outcome) ==
    LET c1 == IF ~EnvExists(e)
              THEN <<Call("exists", e, <<>>)>>
              ELSE <<Call("exists", e, <<>>), Call("contains", e, <<>>)>>
        inst == Install(e, TRUE)
    IN  [env |-> inst.env,
         calls |-> c1 \o inst.calls \o <<Call("run", inst.env, args)>>,
         ok |-> outcome.ok,
         returned |-> IF outcome.ok THEN Some(outcome.stdout) ELSE NoneVal,
         msg |-> inst.msg]

\* variant: exists() and contains() are both evaluated, without short circuit
Run_EagerGuard(e, args, outcome) ==
    LET c1 == <<Call("exists", e, <<>>), Call("contains", e, <<>>)>>
        needs == ~EnvExists(e) \/ ~EnvContains(e)
        inst == Install(e, FALSE)
        e1 == IF needs THEN inst.env ELSE e
        c2 == IF needs THEN c1 \o inst.calls ELSE c1
    IN  [env |-> e1,
         calls |-> c2 \o <<Call("run", e1, args)>>,
         ok |-> outcome.ok,
         returned |-> IF outcome.ok THEN Some(outcome.stdout) ELSE NoneVal,
         msg |-> IF needs THEN inst.msg ELSE "none"]

Run(e, args, outcome) ==
    LET c1 == IF ~EnvExists(e)
              THEN <<Call("exists", e, <<>>)>>
              ELSE <<Call("exists", e, <<>>), Call("contains", e, <<>>)>>
        needs == ~EnvExists(e) \/ ~EnvContains(e)
        inst == Install(e, FALSE)
        e1 == IF needs THEN inst.env ELSE e
        c2 == IF needs THEN c1 \o inst.calls ELSE c1
    IN  [env |-> e1,
         calls |-> c2 \o <<Call("run", e1, args)>>,
         ok |-> outcome.ok,
         returned |-> IF outcome.ok THEN Some(outcome.stdout) ELSE NoneVal,
         msg |-> IF needs THEN inst.msg ELSE "none"]

(***************************************************************************)
(* Project.install and Project.run when an Environment method raises.      *)
(* fault names the method that raises when it is called ("none": no method *)
(* does); a method that raises leaves the environment as it was.  Neither  *)
(* Project method has a try statement, so the exception leaves it at the   *)
(* call; raised names the method whose exception left the invocation.      *)
(***************************************************************************)
Faults == {"none", "create", "install"}

InstallFaulty(e, force, fault) ==
    LET c1 == <<Call("exists", e, <<>>)>>
        creates == ~EnvExists(e)
        c2 == IF creates THEN c1 \o <<Call("create", e, <<>>)>> ELSE c1
    IN  IF creates /\ fault = "create"
        THEN [env |-> e, calls |-> c2, msg |-> "none", raised |-> "create"]
        ELSE LET e1 == IF creates THEN EnvCreate(e) ELSE e
                 c3 == c2 \o <<Call("contains", e1, <<>>)>>
                 installs == ~EnvContains(e1) \/ force
                 c4 == IF installs
                       THEN c3 \o <<Call("install", e1, <<>>)>>
                       ELSE c3
                 \* logging.info precedes the call of install()
                 msg == IF ~EnvContains(e1) THEN "Installing"
                        ELSE IF force THEN "Updating"
                        ELSE "already installed"
             IN  IF installs /\ fault = "install"
                 THEN [env |-> e1, calls |-> c4, msg |-> msg,
                       raised |-> "install"]
                 ELSE [env |-> IF installs THEN EnvInstall(e1) ELSE e1,
                       calls |-> c4, msg |-> msg, raised |-> "none"]

\* variant: an exception of install() is caught and the command runs anyway
RunFaulty_Swallow(e, args, fault, outcome) ==
    LET c1 == IF ~EnvExists(e)
              THEN <<Call("exists", e, <<>>)>>
              ELSE <<Call("exists", e, <<>>), Call("contains", e, <<>>)>>
        needs == ~EnvExists(e) \/ ~EnvContains(e)
        inst == InstallFaulty(e, FALSE, fault)
        e1 == IF needs THEN inst.env ELSE e
        c2 == IF needs THEN c1 \o inst.calls ELSE c1
    IN  [env |-> e1,
         calls |-> c2 \o <<Call("run", e1, args)>>,
         ok |-> outcome.ok,
         returned |-> IF outcome.ok THEN Some(outcome.stdout) ELSE NoneVal,
         msg |-> IF needs THEN inst.msg ELSE "none",
         raised |-> IF outcome.ok THEN "none" ELSE "run"]

RunFaulty(e, args, fault, outcome) ==
    LET c1 == IF ~EnvExists(e)
              THEN <<Call("exists", e, <<>>)>>
              ELSE <<Call("exists", e, <<>>), Call("contains", e, <<>>)>>
        needs == ~EnvExists(e) \/ ~EnvContains(e)
        inst == InstallFaulty(e, FALSE, fault)
        e1 == IF needs THEN inst.env ELSE e
        c2 == IF needs THEN c1 \o inst.calls ELSE c1
    IN  IF needs /\ inst.raised # "none"
        THEN [env |-> e1, calls |-> c2, ok |-> FALSE, returned |-> NoneVal,
              msg |-> inst.msg, raised |-> inst.raised]
        ELSE [env |-> e1,
              calls |-> c2 \o <<Call("run", e1, args)>>,
              ok |-> outcome.ok,
              returned |-> IF outcome.ok THEN Some(outcome.stdout) ELSE NoneVal,
              msg |-> IF needs THEN inst.msg ELSE "none",
              raised |-> IF outcome.ok THEN "none" ELSE "run"]

(***************************************************************************)
(* Configuration of a constructed Pipeline (ProjectBase._config).          *)
(***************************************************************************)
\* the [tool.typeo] table without a "scripts" key
NoScripts == [k \in {} |-> {}]

\* the names that may be registered as scripts
ScriptNames == {<<"a">>}

TypeoTables == {NoScripts} \cup {[scripts |-> S] : S \in SUBSET ScriptNames}

MakeConfig(steps, typeo) ==
    [tool |-> [pinto |-> [steps |-> steps], typeo |-> typeo]]

\* the configuration of a session that constructs no Pipeline
NoPipeline == [tool |-> [k \in {} |-> {}]]

\* Pipeline.steps
PipelineSteps(cfg) == cfg.tool.pinto.steps

\* Pipeline.typeo_config
TypeoConfig(cfg) == cfg.tool.typeo

\* str(self.path) of the pipeline
PipelinePath == <<"/", "p">>

\* self.path / name
PathJoin(path, name) == IF name = <<>> THEN path ELSE path \o <<"/">> \o name

(***************************************************************************)
(* Errors.                                                                 *)
(***************************************************************************)
Error(type, msg) == [type |-> type, msg |-> msg]

NoError == Error("none", <<>>)

CantParse == <<"C", "a", "n", "'", "t", " ", "p", "a", "r", "s", "e", " ", "p", "i", "p", "e", "l", "i", "n", "e", " ", "s", "t", "e", "p", " ", "'">>

ParseErrorMsg(step) == CantParse \o step \o <<"'">>

HasNoDescriptor == <<" ", "h", "a", "s", " ", "n", "o", " ", "a", "s", "s", "o", "c", "i", "a", "t", "e", "d", " ", "'", "p", "y", "p", "r", "o", "j", "e", "c", "t", ".", "t", "o", "m", "l", "'", " ">>

AtLocation == <<"a", "t", " ", "l", "o", "c", "a", "t", "i", "o", "n", " ">>

DescriptorName == <<"p", "y", "p", "r", "o", "j", "e", "c", "t", ".", "t", "o", "m", "l">>

MissingDescriptorMsg(cls, path) ==
    cls \o <<" ">> \o path \o HasNoDescriptor \o AtLocation
        \o path \o <<"/">> \o DescriptorName

ProjectClass == <<"P", "r", "o", "j", "e", "c", "t">>

(***************************************************************************)
(* Pipeline construction (Pipeline.__post_init__).                         *)
(***************************************************************************)
\* a mapping without keys
EmptyTable == [k \in {} |-> {}]

\* self.steps raises no KeyError
HasSteps(cfg) ==
    /\ "tool" \in DOMAIN cfg
    /\ "pinto" \in DOMAIN cfg.tool
    /\ "steps" \in DOMAIN cfg.tool.pinto

\* self.typeo_config raises no KeyError
HasTypeo(cfg) ==
    /\ "tool" \in DOMAIN cfg
    /\ "typeo" \in DOMAIN cfg.tool

ConfigFile == <<"C", "o", "n", "f", "i", "g", " ", "f", "i", "l", "e", " ">>

NoPintoSteps == <<" ", "h", "a", "s", " ", "n", "o", " ", "'", "[", "t", "o", "o", "l", ".", "p", "i", "n", "t", "o", "]", "'", " ", "t", "a", "b", "l", "e", " ", "o", "r", " ", "'", "s", "t", "e", "p", "s", "'", " ", "k", "e", "y", " ", "i", "n", " ", "i", "t", ".">>

NoTypeoTable == <<" ", "h", "a", "s", " ", "n", "o", " ", "'", "[", "t", "o", "o", "l", ".", "t", "y", "p", "e", "o", "]", "'", " ", "t", "a", "b", "l", "e", " ", "n", "e", "c", "e", "s", "s", "a", "r", "y", " ", "t", "o", " ", "r", "u", "n", " ", "p", "r", "o", "j", "e", "c", "t", "s", ".">>

MissingStepsMsg(path) ==
    ConfigFile \o path \o <<"/">> \o DescriptorName \o NoPintoSteps

MissingTypeoMsg(path) ==
    ConfigFile \o path \o <<"/">> \o DescriptorName \o NoTypeoTable

\* variant: the [tool.typeo] table is not looked up
NewPipeline_StepsOnly(path, cfg) ==
    IF ~HasSteps(cfg)
    THEN [ok |-> FALSE, error |-> Error("ValueError", MissingStepsMsg(path))]
    ELSE [ok |-> TRUE, error |-> NoError]

NewPipeline(path, cfg) ==
    IF ~HasSteps(cfg)
    THEN [ok |-> FALSE, error |-> Error("ValueError", MissingStepsMsg(path))]
    ELSE IF ~HasTypeo(cfg)
    THEN [ok |-> FALSE, error |-> Error("ValueError", MissingTypeoMsg(path))]
    ELSE [ok |-> TRUE, error |-> NoError]

(***************************************************************************)
(* Step parsing (cli.run).                                                 *)
(***************************************************************************)
\* step.split(":")
RECURSIVE Split(_)
Split(s) ==
    IF s = <<>> THEN << <<>> >>
    ELSE LET rest == Split(Tail(s))
         IN  IF Head(s) = ":"
             THEN << <<>> >> \o rest
             ELSE << <<Head(s)>> \o rest[1] >> \o Tail(rest)

\* variant: the first three fields of a longer step are accepted
ParseStep_FirstThree(step) ==
    LET fields == Split(step)
    IN  IF Len(fields) >= 3
        THEN [step |-> step, ok |-> TRUE, component |-> fields[1],
              command |-> fields[2], subcommand |-> Some(fields[3]),
              error |-> NoError]
        ELSE IF Len(fields) = 2
        THEN [step |-> step, ok |-> TRUE, component |-> fields[1],
              command |-> fields[2], subcommand |-> NoneVal,
              error |-> NoError]
        ELSE [step |-> step, ok |-> FALSE, component |-> <<>>,
              command |-> <<>>, subcommand |-> NoneVal,
              error |-> Error("ValueError", ParseErrorMsg(step))]

ParseStep(step) ==
    LET fields == Split(step)
    IN  IF Len(fields) = 3
        THEN [step |-> step, ok |-> TRUE, component |-> fields[1],
              command |-> fields[2], subcommand |-> Some(fields[3]),
              error |-> NoError]
        ELSE IF Len(fields) = 2
        THEN [step |-> step, ok |-> TRUE, component |-> fields[1],
              command |-> fields[2], subcommand |-> NoneVal,
              error |-> NoError]
        ELSE [step |-> step, ok |-> FALSE, component |-> <<>>,
              command |-> <<>>, subcommand |-> NoneVal,
              error |-> Error("ValueError", ParseErrorMsg(step))]

(***************************************************************************)
(* Pipeline.create_project and Project construction.                       *)
(***************************************************************************)
\* the component directories that hold a project descriptor naming a project
\* are the ones with an environment; self.path / "" is the pipeline's own
\* directory, whose descriptor is the pipeline's configuration, and
\* Project.__post_init__ reads ["tool"]["poetry"]["name"] of it
CreateProject(cfg, projects, name) ==
    IF name # <<>>
    THEN IF name \notin projects
         THEN [ok |-> FALSE,
               error |-> Error("ValueError",
                               MissingDescriptorMsg(ProjectClass,
                                                    PathJoin(PipelinePath, name)))]
         ELSE [ok |-> TRUE, error |-> NoError]
    ELSE IF "poetry" \notin DOMAIN cfg.tool
    THEN [ok |-> FALSE, error |-> Error("KeyError", <<"p", "o", "e", "t", "r", "y">>)]
    ELSE IF "name" \notin DOMAIN cfg.tool.poetry
    THEN [ok |-> FALSE, error |-> Error("KeyError", <<"n", "a", "m", "e">>)]
    ELSE [ok |-> TRUE, error |-> NoError]

(***************************************************************************)
(* Pipeline.run_step                                                       *)
(***************************************************************************)
TypeoFlag == <<"-", "-", "t", "y", "p", "e", "o">>

\* variant: the subcommand of a registered script is dropped
TypeoArg_DropSub(path, typeo_config, command, subcommand) ==
    IF "scripts" \in DOMAIN typeo_config
    THEN IF command \in typeo_config.scripts
         THEN path \o <<":">> \o command
         ELSE IF subcommand # NoneVal
              THEN path \o <<":">> \o subcommand[1]
              ELSE path
    ELSE IF subcommand # NoneVal
         THEN path \o <<":", ":">> \o subcommand[1]
         ELSE path

TypeoArg(path, typeo_config, command, subcommand) ==
    IF "scripts" \in DOMAIN typeo_config
    THEN LET a1 == IF command \in typeo_config.scripts
                   THEN path \o <<":">> \o command
                   ELSE path
         IN  IF subcommand # NoneVal
             THEN a1 \o <<":">> \o subcommand[1]
             ELSE a1
    ELSE IF subcommand # NoneVal
         THEN path \o <<":", ":">> \o subcommand[1]
         ELSE path

RunStep(path, typeo_config, e, command, subcommand, outcome) ==
    LET typeo_arg == TypeoArg(path, typeo_config, command, subcommand)
        args == <<command, TypeoFlag, typeo_arg>>
    IN  [typeo_arg |-> typeo_arg,
         args |-> args,
         run |-> Run(e, args, outcome),
         returned |-> NoneVal]

(***************************************************************************)
(* The objects of a loaded configuration (ProjectBase._config).  toml.load *)
(* builds one dict per table; a slot of an object holds a plain value or a *)
(* reference to another object.  dict.copy() makes a new object with the   *)
(* same slots, references included.                                        *)
(***************************************************************************)
Val(n) == [kind |-> "val", v |-> n]

Ref(a) == [kind |-> "ref", v |-> a]

\* self._config
Root == 1

\* the document [tool.pinto] steps = [...]: the top-level mapping, the tool
\* table, the pinto table and the steps list
LoadedHeap ==
    (1 :> [tool |-> Ref(2)]) @@ (2 :> [pinto |-> Ref(3)])
        @@ (3 :> [steps |-> Ref(4)]) @@ (4 :> [item |-> Val(0)])

\* the object reached from object a by the keys of path
RECURSIVE Follow(_, _, _)
Follow(h, a, path) ==
    IF path = <<>> THEN a ELSE Follow(h, h[a][Head(path)].v, Tail(path))

\* dict.copy(): a new object with the slots of object a
ShallowCopy(h, a) ==
    LET new == Cardinality(DOMAIN h) + 1
    IN  [heap |-> h @@ (new :> h[a]), result |-> new]

\* the objects a caller holding object a can reach
RECURSIVE ReachableFrom(_, _, _)
ReachableFrom(h, a, depth) ==
    IF depth = 0 THEN {a}
    ELSE {a} \cup UNION {ReachableFrom(h, h[a][k].v, depth - 1) :
                           k \in {x \in DOMAIN h[a] : h[a][x].kind = "ref"}}

(***************************************************************************)
(* State.                                                                  *)
(*   venv      the environment of every project directory on disk          *)
(*   config    the constructed Pipeline's configuration                    *)
(*   status    "idle": no pipeline, the Project API is called directly;    *)
(*             "running" / "done" / "failed": cli.run of the pipeline      *)
(*   i         index of the next step of the loop of cli.run               *)
(*   error     the exception that left cli.run                             *)
(*   parsed    the parse result of every step taken from the list          *)
(*   resolved  the components create_project returned a Project for        *)
(*   executed  the run_step calls made by cli.run                          *)
(*   logged    the values cli.run passed to logging.info                   *)
(*   last      the latest invocation of Project.install or Project.run     *)
(***************************************************************************)
\* the project directories on disk: "a" always, "b" in some runs
ProjectSets == {{<<"a">>}, Names}

VenvMaps == UNION {[P -> EnvState] : P \in ProjectSets}

NoCall ==
    [op |-> "none", project |-> <<>>, force |-> FALSE, args |-> <<>>,
     pre |-> Absent, post |-> Absent, calls |-> <<>>, ok |-> TRUE,
     returned |-> NoneVal, msg |-> "none"]

\* the steps a step list is made of: one name (no command), or the two or
\* three names "component:command" and "component:command:subcommand"
StepPool == {Join(t) : t \in TuplesOfLen(Names, 1) \cup TuplesOfLen(Names, 2)
                               \cup TuplesOfLen(Names, 3)}

StepLists == TuplesUpTo(StepPool, MaxSteps)

\* the raw step of a single-step pipeline: any string up to MaxStepLen
RawStepLists == {<<s>> : s \in StringsUpTo(MaxStepLen)}

InitCommon ==
    /\ venv \in VenvMaps
    /\ i = 1
    /\ error = NoError
    /\ parsed = <<>>
    /\ resolved = <<>>
    /\ executed = <<>>
    /\ logged = <<>>
    /\ last = NoCall
    /\ heap = LoadedHeap
    /\ views = {}

InitIdle ==
    /\ InitCommon
    /\ status = "idle"
    /\ config = NoPipeline

InitPipeline(lists) ==
    /\ InitCommon
    /\ status = "running"
    /\ \E steps \in lists, typeo \in TypeoTables : config = MakeConfig(steps, typeo)

Init == InitIdle \/ InitPipeline(StepLists)

InitParse == InitIdle \/ InitPipeline(RawStepLists)

(***************************************************************************)
(* Actions.                                                                *)
(***************************************************************************)
\* the arguments of a direct call of Project.run
ArgLists == {<<n>> : n \in Names}

\* project.install(force) called directly
ProjectInstall(p, force) ==
    /\ status = "idle"
    /\ p \in DOMAIN venv
    /\ LET r == Install(venv[p], force)
       IN  /\ venv' = [venv EXCEPT ![p] = r.env]
           /\ last' = [op |-> "install", project |-> p, force |-> force,
                       args |-> <<>>, pre |-> venv[p], post |-> r.env,
                       calls |-> r.calls, ok |-> TRUE, returned |-> NoneVal,
                       msg |-> r.msg]
    /\ UNCHANGED <<config, status, i, error, parsed, resolved, executed, logged>>
    /\ UNCHANGED mem

\* project.run(*args) called directly
ProjectRun(p, args, outcome) ==
    /\ status = "idle"
    /\ p \in DOMAIN venv
    /\ LET r == Run(venv[p], args, outcome)
       IN  /\ venv' = [venv EXCEPT ![p] = r.env]
           /\ last' = [op |-> "run", project |-> p, force |-> FALSE,
                       args |-> args, pre |-> venv[p], post |-> r.env,
                       calls |-> r.calls, ok |-> r.ok, returned |-> r.returned,
                       msg |-> r.msg]
    /\ UNCHANGED <<config, status, i, error, parsed, resolved, executed, logged>>
    /\ UNCHANGED mem

\* variant: a step whose command fails is skipped and the loop goes on
PipelineStep_Continue(outcome) ==
    /\ status = "running"
    /\ i <= Len(PipelineSteps(config))
    /\ LET step == PipelineSteps(config)[i]
           p == ParseStep(step)
           proj == CreateProject(config, DOMAIN venv, p.component)
       IN  /\ parsed' = Append(parsed, p)
           /\ IF ~p.ok
              THEN /\ status' = "failed"
                   /\ error' = p.error
                   /\ UNCHANGED <<venv, i, resolved, executed, logged, last>>
              ELSE IF ~proj.ok
              THEN /\ status' = "failed"
                   /\ error' = proj.error
                   /\ UNCHANGED <<venv, i, resolved, executed, logged, last>>
              ELSE LET e == venv[p.component]
                       s == RunStep(PipelinePath, TypeoConfig(config), e,
                                    p.command, p.subcommand, outcome)
                   IN  /\ resolved' = Append(resolved, p.component)
                       /\ venv' = [venv EXCEPT ![p.component] = s.run.env]
                       /\ last' = [op |-> "run", project |-> p.component,
                                   force |-> FALSE, args |-> s.args, pre |-> e,
                                   post |-> s.run.env, calls |-> s.run.calls,
                                   ok |-> s.run.ok, returned |-> s.run.returned,
                                   msg |-> s.run.msg]
                       /\ executed' = Append(executed,
                              [index |-> i, project |-> p.component,
                               command |-> p.command,
                               subcommand |-> p.subcommand,
                               typeo_arg |-> s.typeo_arg, args |-> s.args,
                               ok |-> s.run.ok, stdout |-> s.run.returned])
                       /\ logged' = IF s.run.ok THEN Append(logged, s.returned)
                                    ELSE logged
                       /\ i' = i + 1
                       /\ UNCHANGED <<status, error>>
    /\ UNCHANGED config
    /\ UNCHANGED mem

\* one iteration of the loop of cli.run: parse the step, create the
\* sub-project, run the step, log what run_step returned
PipelineStep(outcome) ==
    /\ status = "running"
    /\ i <= Len(PipelineSteps(config))
    /\ LET step == PipelineSteps(config)[i]
           p == ParseStep(step)
           proj == CreateProject(config, DOMAIN venv, p.component)
       IN  /\ parsed' = Append(parsed, p)
           /\ IF ~p.ok
              THEN /\ status' = "failed"
                   /\ error' = p.error
                   /\ UNCHANGED <<venv, i, resolved, executed, logged, last>>
              ELSE IF ~proj.ok
              THEN /\ status' = "failed"
                   /\ error' = proj.error
                   /\ UNCHANGED <<venv, i, resolved, executed, logged, last>>
              ELSE LET e == venv[p.component]
                       s == RunStep(PipelinePath, TypeoConfig(config), e,
                                    p.command, p.subcommand, outcome)
                   IN  /\ resolved' = Append(resolved, p.component)
                       /\ venv' = [venv EXCEPT ![p.component] = s.run.env]
                       /\ last' = [op |-> "run", project |-> p.component,
                                   force |-> FALSE, args |-> s.args, pre |-> e,
                                   post |-> s.run.env, calls |-> s.run.calls,
                                   ok |-> s.run.ok, returned |-> s.run.returned,
                                   msg |-> s.run.msg]
                       /\ executed' = Append(executed,
                              [index |-> i, project |-> p.component,
                               command |-> p.command,
                               subcommand |-> p.subcommand,
                               typeo_arg |-> s.typeo_arg, args |-> s.args,
                               ok |-> s.run.ok, stdout |-> s.run.returned])
                       /\ IF s.run.ok
                          THEN /\ logged' = Append(logged, s.returned)
                               /\ i' = i + 1
                               /\ UNCHANGED <<status, error>>
                          ELSE /\ status' = "failed"
                               /\ error' = Error("EnvironmentExecutionError", <<>>)
                               /\ UNCHANGED <<logged, i>>
    /\ UNCHANGED config
    /\ UNCHANGED mem

\* the loop of cli.run is exhausted and cli.run returns
PipelineReturn ==
    /\ status = "running"
    /\ i > Len(PipelineSteps(config))
    /\ status' = "done"
    /\ UNCHANGED <<venv, config, i, error, parsed, resolved, executed, logged, last>>
    /\ UNCHANGED mem

\* the documents a Pipeline is constructed from: the [tool] table, its
\* [tool.pinto] table, the steps key and the [tool.typeo] table are each
\* present or missing
\* the steps that name the pipeline's own directory: an empty component
OwnSteps == {Join(<< <<>>, n >>) : n \in Names}

PintoTables ==
    {EmptyTable} \cup {[steps |-> l] : l \in TuplesUpTo(StepPool \cup OwnSteps, 1)}

\* the [tool.poetry] table of the pipeline's descriptor, without and with
\* the name key
PoetryTables == {EmptyTable, [name |-> <<"p">>]}

ToolTables ==
    {EmptyTable}
    \cup {[pinto |-> pt] : pt \in PintoTables}
    \cup {[typeo |-> tt] : tt \in TypeoTables}
    \cup {[pinto |-> pt, typeo |-> tt] : pt \in PintoTables, tt \in TypeoTables}
    \cup {[pinto |-> pt, typeo |-> tt, poetry |-> pp] :
              pt \in PintoTables, tt \in TypeoTables, pp \in PoetryTables}

Documents == {EmptyTable} \cup {[tool |-> t] : t \in ToolTables}

\* the environments of a session that constructs the pipeline: the one of
\* the pipeline's own directory and the one of the project directory "a"
ConstructVenvMaps == [{<<>>, <<"a">>} -> EnvState]

InitConstruct ==
    /\ venv \in ConstructVenvMaps
    /\ i = 1
    /\ error = NoError
    /\ parsed = <<>>
    /\ resolved = <<>>
    /\ executed = <<>>
    /\ logged = <<>>
    /\ last = NoCall
    /\ heap = LoadedHeap
    /\ views = {}
    /\ status = "new"
    /\ config \in Documents

\* pipeline = Pipeline(pipeline) in cli.run
PipelineConstruct ==
    /\ status = "new"
    /\ LET r == NewPipeline(PipelinePath, config)
       IN  IF r.ok
           THEN status' = "running" /\ UNCHANGED error
           ELSE status' = "rejected" /\ error' = r.error
    /\ UNCHANGED <<venv, config, i, parsed, resolved, executed, logged, last>>
    /\ UNCHANGED mem

NextConstruct ==
    \/ PipelineConstruct
    \/ \E outcome \in Outcomes : PipelineStep(outcome)
    \/ PipelineReturn

SpecConstruct == InitConstruct /\ [][NextConstruct]_vars

\* a session that reads and mutates a project's configuration
InitConfig ==
    /\ InitCommon
    /\ venv = [p \in Names |-> Absent]
    /\ status = "idle"
    /\ config = NoPipeline

\* the config property: return self._config.copy()
ReadConfig ==
    /\ Cardinality(DOMAIN heap) < Cardinality(DOMAIN LoadedHeap) + MaxViews
    /\ LET c == ShallowCopy(heap, Root)
       IN  /\ heap' = c.heap
           /\ views' = views \cup {c.result}
    /\ UNCHANGED <<venv, config, status, i, error, parsed, resolved, executed,
                   logged, last>>

\* the steps property: return self.config["tool"]["pinto"]["steps"]
ReadSteps ==
    /\ Cardinality(DOMAIN heap) < Cardinality(DOMAIN LoadedHeap) + MaxViews
    /\ LET c == ShallowCopy(heap, Root)
       IN  /\ heap' = c.heap
           /\ views' = views \cup {Follow(c.heap, c.result, <<"tool", "pinto", "steps">>)}
    /\ UNCHANGED <<venv, config, status, i, error, parsed, resolved, executed,
                   logged, last>>

\* the keys a caller writes: one the document has and one it has not
WrittenKeys == {"tool", "extra"}

\* a caller writes a slot of an object it reached from a returned object
CallerWrites(v, a, key) ==
    /\ v \in views
    /\ a \in ReachableFrom(heap, v, 3)
    /\ heap' = [heap EXCEPT ![a] = (key :> Val(1)) @@ heap[a]]
    /\ UNCHANGED <<venv, config, status, i, error, parsed, resolved, executed,
                   logged, last, views>>

NextConfig ==
    \/ ReadConfig
    \/ ReadSteps
    \/ \E v \in DOMAIN heap, a \in DOMAIN heap, key \in WrittenKeys :
           CallerWrites(v, a, key)

SpecConfig == InitConfig /\ [][NextConfig]_vars

\* project.install(force) called directly, with a method that may raise
ProjectInstallFaulty(p, force, fault) ==
    /\ status = "idle"
    /\ p \in DOMAIN venv
    /\ LET r == InstallFaulty(venv[p], force, fault)
       IN  /\ venv' = [venv EXCEPT ![p] = r.env]
           /\ last' = [op |-> "install", project |-> p, force |-> force,
                       args |-> <<>>, pre |-> venv[p], post |-> r.env,
                       calls |-> r.calls, ok |-> r.raised = "none",
                       returned |-> NoneVal, msg |-> r.msg,
                       fault |-> fault, exit_ok |-> TRUE, raised |-> r.raised]
    /\ UNCHANGED <<config, status, i, error, parsed, resolved, executed, logged>>
    /\ UNCHANGED mem

\* project.run(*args) called directly, with a method that may raise
ProjectRunFaulty(p, args, fault, outcome) ==
    /\ status = "idle"
    /\ p \in DOMAIN venv
    /\ LET r == RunFaulty(venv[p], args, fault, outcome)
       IN  /\ venv' = [venv EXCEPT ![p] = r.env]
           /\ last' = [op |-> "run", project |-> p, force |-> FALSE,
                       args |-> args, pre |-> venv[p], post |-> r.env,
                       calls |-> r.calls, ok |-> r.ok, returned |-> r.returned,
                       msg |-> r.msg,
                       fault |-> fault, exit_ok |-> outcome.ok,
                       raised |-> r.raised]
    /\ UNCHANGED <<config, status, i, error, parsed, resolved, executed, logged>>
    /\ UNCHANGED mem

NextFail ==
    \/ \E p \in Names, force \in BOOLEAN, fault \in Faults :
           ProjectInstallFaulty(p, force, fault)
    \/ \E p \in Names, args \in ArgLists, fault \in Faults, outcome \in Outcomes :
           ProjectRunFaulty(p, args, fault, outcome)

SpecFail == InitIdle /\ [][NextFail]_vars

\* the message of the AttributeError of project.create_venv: class Project
\* defines install and run and no create_venv
NoCreateVenv == <<"'", "P", "r", "o", "j", "e", "c", "t", "'", " ", "o", "b", "j", "e", "c", "t", " ", "h", "a", "s", " ", "n", "o", " ", "a", "t", "t", "r", "i", "b", "u", "t", "e", " ", "'", "c", "r", "e", "a", "t", "e", "_", "v", "e", "n", "v", "'">>

\* build(project_path, force) of the command line: construct the Project,
\* then call project.create_venv(force)
CliBuild(p, force) ==
    /\ status = "idle"
    /\ status' = "failed"
    /\ error' = IF p \notin DOMAIN venv
                THEN Error("ValueError",
                           MissingDescriptorMsg(ProjectClass,
                                                PathJoin(PipelinePath, p)))
                ELSE Error("AttributeError", NoCreateVenv)
    /\ last' = [op |-> "build", project |-> p, force |-> force, args |-> <<>>,
                pre |-> IF p \in DOMAIN venv THEN venv[p] ELSE Absent,
                post |-> IF p \in DOMAIN venv THEN venv[p] ELSE Absent,
                calls |-> <<>>, ok |-> FALSE, returned |-> NoneVal,
                msg |-> "none"]
    /\ UNCHANGED <<venv, config, i, parsed, resolved, executed, logged>>
    /\ UNCHANGED mem

NextBuild ==
    \/ \E p \in Names, force \in BOOLEAN : ProjectInstall(p, force)
    \/ \E p \in Names, args \in ArgLists, outcome \in Outcomes :
           ProjectRun(p, args, outcome)
    \/ \E p \in Names, force \in BOOLEAN : CliBuild(p, force)

SpecBuild == InitIdle /\ [][NextBuild]_vars

Next ==
    \/ \E p \in Names, force \in BOOLEAN : ProjectInstall(p, force)
    \/ \E p \in Names, args \in ArgLists, outcome \in Outcomes :
           ProjectRun(p, args, outcome)
    \/ \E outcome \in Outcomes : PipelineStep(outcome)
    \/ PipelineReturn

Spec == Init /\ [][Next]_vars

SpecParse == InitParse /\ [][Next]_vars

TypeOK ==
    /\ venv \in VenvMaps \cup ConstructVenvMaps
    /\ status \in {"idle", "new", "rejected", "running", "done", "failed"}
    /\ i \in 1..(MaxSteps + 1)
    /\ Len(parsed) <= MaxSteps

(***************************************************************************)
(* Properties of Project.install and Project.run.                          *)
(***************************************************************************)
\* number of calls of the Environment method op in a call sequence
CountOp(calls, op) == Cardinality({k \in DOMAIN calls : calls[k].op = op})

\* the state-changing Environment methods
Mutators == {"create", "install", "run"}

\* the names of the state-changing calls of a call sequence, in order
RECURSIVE MutatingOps(_)
MutatingOps(calls) ==
    IF calls = <<>> THEN <<>>
    ELSE (IF Head(calls).op \in Mutators THEN <<Head(calls).op>> ELSE <<>>)
             \o MutatingOps(Tail(calls))

InstalledBefore == last.pre.exists /\ last.pre.contains

\* C1: Project.install(force=False) on an environment that exists and
\* contains the project calls neither Environment.create nor
\* Environment.install and leaves the environment as it was.
C1_InstallNoForceIsNoOp ==
    (last.op = "install" /\ ~last.force /\ InstalledBefore)
        => /\ CountOp(last.calls, "create") = 0
           /\ CountOp(last.calls, "install") = 0
           /\ last.post = last.pre
           /\ venv[last.project] = last.pre

C1_Witness ==
    /\ last.op = "install" /\ ~last.force /\ InstalledBefore
    /\ last.msg = "already installed"

\* C2: Project.run on a project whose environment does not exist makes
\* exactly one create, then exactly one install, and only then runs the
\* requested arguments: the state-changing calls are create, install, run.
C2_RunFromAbsent ==
    (last.op = "run" /\ ~last.pre.exists)
        => /\ MutatingOps(last.calls) = <<"create", "install", "run">>
           /\ last.calls[Len(last.calls)].op = "run"
           /\ last.calls[Len(last.calls)].args = last.args

C2_Witness ==
    /\ last.op = "run" /\ ~last.pre.exists
    /\ CountOp(last.calls, "run") = 1
    /\ last.post.contains

\* C3: whenever Project.run executes the command, the environment exists
\* and contains the project at that moment, whatever state it started in.
C3_RunsInstalled ==
    last.op = "run"
        => \A k \in DOMAIN last.calls :
               last.calls[k].op = "run"
                   => last.calls[k].env.exists /\ last.calls[k].env.contains

C3_Witness ==
    /\ last.op = "run" /\ last.pre.exists /\ ~last.pre.contains
    /\ CountOp(last.calls, "run") = 1

\* C4: one Project.install calls Environment.install at most once, and
\* exactly once when the environment was absent or lacked the project,
\* whatever force is.
C4_InstallAtMostOnce ==
    last.op = "install"
        => /\ CountOp(last.calls, "install") <= 1
           /\ ~InstalledBefore => CountOp(last.calls, "install") = 1

C4_Witness ==
    /\ last.op = "install" /\ last.force /\ ~InstalledBefore
    /\ CountOp(last.calls, "install") = 1

\* C5: Project.install(force=True) on an environment that exists and
\* contains the project calls Environment.install exactly once and never
\* Environment.create.
C5_ForcedReinstall ==
    (last.op = "install" /\ last.force /\ InstalledBefore)
        => /\ CountOp(last.calls, "install") = 1
           /\ CountOp(last.calls, "create") = 0

C5_Witness ==
    /\ last.op = "install" /\ last.force /\ InstalledBefore
    /\ last.msg = "Updating"

(***************************************************************************)
(* Properties of Pipeline.run_step.                                        *)
(***************************************************************************)
\* command is a registered script name of the scripts-configuration table
Registered(command) ==
    /\ "scripts" \in DOMAIN TypeoConfig(config)
    /\ command \in TypeoConfig(config).scripts

\* C6: for a command that is not a registered script (with or without a
\* scripts entry in the table) and a supplied subcommand, run_step passes
\* the override argument <path>::<subcommand>.
C6_UnregisteredWithSubcommand ==
    \A k \in DOMAIN executed :
        (~Registered(executed[k].command) /\ executed[k].subcommand # NoneVal)
            => executed[k].typeo_arg
                   = PipelinePath \o <<":", ":">> \o executed[k].subcommand[1]

\* C7: run_step passes <path>:<command> for a registered script without
\* subcommand, <path>:<command>:<subcommand> for a registered script with
\* subcommand, the bare <path> for an unregistered command without
\* subcommand; equal (command, subcommand) under one configuration give the
\* same argument, whatever the project and the state of its environment.
C7_OverrideShapes ==
    \A k \in DOMAIN executed :
        LET x == executed[k]
        IN  /\ (Registered(x.command) /\ x.subcommand = NoneVal)
                   => x.typeo_arg = PipelinePath \o <<":">> \o x.command
            /\ (Registered(x.command) /\ x.subcommand # NoneVal)
                   => x.typeo_arg = PipelinePath \o <<":">> \o x.command
                                        \o <<":">> \o x.subcommand[1]
            /\ (~Registered(x.command) /\ x.subcommand = NoneVal)
                   => x.typeo_arg = PipelinePath
            /\ x.args[3] = x.typeo_arg
            /\ \A j \in DOMAIN executed :
                   (executed[j].command = x.command
                        /\ executed[j].subcommand = x.subcommand)
                       => executed[j].typeo_arg = x.typeo_arg

C7_Witness ==
    /\ Len(executed) = 2
    /\ Registered(executed[1].command) /\ executed[1].subcommand # NoneVal
    /\ executed[2].command = executed[1].command
    /\ executed[2].subcommand = executed[1].subcommand
    /\ executed[2].project # executed[1].project

\* C8: run_step calls project.run with exactly (command, "--typeo",
\* override argument) and returns the stdout project.run returned, which
\* cli.run then logs.
C8_ReturnsStdout ==
    \A k \in DOMAIN logged :
        /\ executed[k].args
               = <<executed[k].command, TypeoFlag, executed[k].typeo_arg>>
        /\ logged[k] = executed[k].stdout

(***************************************************************************)
(* Properties of cli.run.                                                  *)
(***************************************************************************)
\* the steps are taken in declared order, one at a time, and a failed step
\* is the last one touched
InOrder ==
    /\ \A k \in DOMAIN parsed : parsed[k].step = PipelineSteps(config)[k]
    /\ Len(resolved) = Len(executed)
    /\ \A k \in DOMAIN executed :
           /\ executed[k].index = k
           /\ executed[k].project = parsed[k].component
           /\ executed[k].command = parsed[k].command
           /\ resolved[k] = parsed[k].component
    /\ \A k \in DOMAIN parsed : k < Len(parsed) => executed[k].ok
    /\ status = "running"
           => Len(parsed) = i - 1 /\ Len(executed) = i - 1 /\ Len(logged) = i - 1
    /\ status = "failed"
           => /\ error # NoError
              /\ Len(parsed) = i
              /\ Len(executed) <= i
              /\ Len(logged) = i - 1

\* C9: cli.run processes the steps strictly in declared order, one at a
\* time; once parsing or executing step k fails, no later step is parsed,
\* no sub-project is created, no command is run, nothing is retried, and
\* the error is what leaves cli.run.
C9_FailFastInOrder ==
    /\ []InOrder
    /\ [][status = "failed" => UNCHANGED vars]_vars

C9_Witness ==
    /\ status = "failed"
    /\ i = 1
    /\ Len(PipelineSteps(config)) = 2
    /\ Len(executed) = 1
    /\ error.type = "EnvironmentExecutionError"

\* C10: a step with exactly 2 or 3 colon-delimited fields parses to those
\* fields in order (subcommand None for 2 fields); a step with any other
\* number of fields fails with the ValueError naming the raw step.
C10_StepParsing ==
    \A k \in DOMAIN parsed :
        LET r == parsed[k]
            n == Colons(r.step) + 1
            fields == IF r.subcommand = NoneVal
                      THEN <<r.component, r.command>>
                      ELSE <<r.component, r.command, r.subcommand[1]>>
        IN  /\ n \in {2, 3}
                => /\ r.ok
                   /\ Len(fields) = n
                   /\ Join(fields) = r.step
                   /\ \A f \in DOMAIN fields : Colons(fields[f]) = 0
            /\ n \notin {2, 3}
                => /\ ~r.ok
                   /\ status = "failed"
                   /\ error = [type |-> "ValueError",
                               msg |-> CantParse \o r.step \o <<"'">>]

C10_Witness ==
    /\ Len(parsed) = 1
    /\ parsed[1].ok
    /\ parsed[1].subcommand # NoneVal
    /\ parsed[1].component = <<"a">>
    /\ parsed[1].command = <<"b">>
    /\ parsed[1].subcommand[1] = <<"a">>

\* a step of 2 or 3 colon-delimited fields one of which is empty: it starts
\* or ends with ":" or holds "::"
HasEmptyField(step) ==
    /\ Colons(step) \in {1, 2}
    /\ \/ Head(step) = ":"
       \/ step[Len(step)] = ":"
       \/ \E k \in 1..(Len(step) - 1) : step[k] = ":" /\ step[k + 1] = ":"

\* C11: a step of 2 or 3 fields with an empty field (such as "a::b", ":b",
\* "a:") is rejected with the step-parse ValueError, and no sub-project is
\* created and no command is run for it.
C11_EmptyFieldRejected ==
    \A k \in DOMAIN parsed :
        HasEmptyField(parsed[k].step)
            => /\ ~parsed[k].ok
               /\ status = "failed"
               /\ error = [type |-> "ValueError",
                           msg |-> CantParse \o parsed[k].step \o <<"'">>]
               /\ Len(resolved) < k
               /\ Len(executed) < k

(***************************************************************************)
(* Properties of Pipeline construction.                                    *)
(***************************************************************************)
\* the steps list tool.pinto.steps is in the document
StepsPresent ==
    /\ "tool" \in DOMAIN config
    /\ "pinto" \in DOMAIN config.tool
    /\ "steps" \in DOMAIN config.tool.pinto

\* the scripts-configuration table tool.typeo is in the document
TypeoPresent ==
    /\ "tool" \in DOMAIN config
    /\ "typeo" \in DOMAIN config.tool

\* C12: constructing a Pipeline fails with the missing-key ValueError when
\* the steps list or the scripts-configuration table is missing, the message
\* names a table that is missing (the only one, when only one is), and the
\* construction succeeds only when both are present.
C12_ConstructionValidates ==
    /\ status = "rejected"
           => /\ ~(StepsPresent /\ TypeoPresent)
              /\ error.type = "ValueError"
              /\ error.msg = MissingStepsMsg(PipelinePath) => ~StepsPresent
              /\ error.msg = MissingTypeoMsg(PipelinePath) => ~TypeoPresent
              /\ error.msg \in {MissingStepsMsg(PipelinePath),
                                MissingTypeoMsg(PipelinePath)}
              /\ parsed = <<>> /\ executed = <<>>
    /\ status \in {"running", "done", "failed"}
           => StepsPresent /\ TypeoPresent

C12_Witness ==
    /\ status = "rejected"
    /\ StepsPresent /\ ~TypeoPresent
    /\ error.msg = MissingTypeoMsg(PipelinePath)

(***************************************************************************)
(* Properties of the config property.                                      *)
(***************************************************************************)
\* object a of heap h and object b of heap g hold the same nested mapping
RECURSIVE SameMapping(_, _, _, _)
SameMapping(h, a, g, b) ==
    /\ DOMAIN h[a] = DOMAIN g[b]
    /\ \A k \in DOMAIN h[a] :
           /\ h[a][k].kind = g[b][k].kind
           /\ IF h[a][k].kind = "ref"
              THEN SameMapping(h, h[a][k].v, g, g[b][k].v)
              ELSE h[a][k].v = g[b][k].v

\* C13: every read of config returns an independent copy: whatever a caller
\* writes into a returned mapping, at the top level or in a nested table,
\* the project's internal configuration stays what was loaded.
C13_ConfigIsIndependentCopy ==
    SameMapping(heap, Root, LoadedHeap, Root)

(***************************************************************************)
(* Properties of the environment's lifecycle.                              *)
(***************************************************************************)
\* no environment goes back: absent -> exists -> contains the project
MovesForward ==
    \A p \in DOMAIN venv :
        /\ venv[p].exists => venv'[p].exists
        /\ venv[p].contains => venv'[p].contains

\* a create or install applied to an environment that contains the project
\* is the install of Project.install(force=True)
OnlyForcedReinstall ==
    \A k \in DOMAIN last.calls :
        (last.calls[k].op \in {"create", "install"} /\ last.calls[k].env.contains)
            => /\ last.calls[k].op = "install"
               /\ last.op = "install"
               /\ last.force

\* C14: over any sequence of Project.install(force) and Project.run calls an
\* environment only moves forward through absent, exists, installed; the
\* only lifecycle operation applied to an installed environment is the
\* re-install of install(force=True).
C14_LifecycleForward ==
    /\ [][MovesForward]_vars
    /\ []OnlyForcedReinstall

C14_Witness ==
    /\ last.op = "install" /\ last.force
    /\ last.pre.contains /\ last.post.contains
    /\ venv[last.project] = last.post
    /\ last.calls[Len(last.calls)].op = "install"

\* C16: Project.run on an environment that exists and contains the project
\* calls neither create nor install: its only state-changing call is the one
\* Environment.run of the requested command.
C16_RunWhenInstalled ==
    (last.op = "run" /\ InstalledBefore)
        => /\ MutatingOps(last.calls) = <<"run">>
           /\ last.calls[Len(last.calls)].args = last.args
           /\ last.post = last.pre

C16_Witness ==
    /\ last.op = "run" /\ InstalledBefore
    /\ CountOp(last.calls, "run") = 1
    /\ CountOp(last.calls, "exists") = 1

\* C17: Project never calls create on an environment that exists: in every
\* Project.install or Project.run, create is called at most once and only
\* right after an exists() that returned false.
C17_CreateOnlyWhenAbsent ==
    /\ CountOp(last.calls, "create") <= 1
    /\ \A k \in DOMAIN last.calls :
           last.calls[k].op = "create"
               => /\ ~last.calls[k].env.exists
                  /\ k > 1
                  /\ last.calls[k - 1].op = "exists"
                  /\ ~last.calls[k - 1].env.exists

C17_Witness ==
    /\ last.op = "install"
    /\ ~last.pre.exists
    /\ CountOp(last.calls, "create") = 1

\* C18: Project never queries contains() on an absent environment: every
\* contains() of Project.install and Project.run sees an environment that
\* exists.
C18_ContainsOnlyWhenExists ==
    \A k \in DOMAIN last.calls :
        last.calls[k].op = "contains" => last.calls[k].env.exists

C18_Witness ==
    /\ last.op = "run"
    /\ ~last.pre.exists
    /\ CountOp(last.calls, "contains") = 1

(***************************************************************************)
(* Properties of failing Environment methods.                              *)
(***************************************************************************)
\* without a raising method the invocation is the one of Install and Run
FaultFreeAgrees ==
    \A e \in EnvState, force \in BOOLEAN, outcome \in Outcomes :
        /\ InstallFaulty(e, force, "none").env = Install(e, force).env
        /\ InstallFaulty(e, force, "none").calls = Install(e, force).calls
        /\ RunFaulty(e, <<>>, "none", outcome).calls = Run(e, <<>>, outcome).calls
        /\ RunFaulty(e, <<>>, "none", outcome).env = Run(e, <<>>, outcome).env

LastCallOp == last.calls[Len(last.calls)].op

\* C15: Project neither retries nor swallows an error.  When create or
\* install raises during Project.run the exception leaves Project.run, the
\* command is never executed and the failed method is called once; when
\* Environment.run fails the error leaves Project.run and no Environment
\* method is called after it.
C15_ErrorsPropagate ==
    (last.op = "run")
        => /\ (last.fault = "create" /\ CountOp(last.calls, "create") >= 1)
                  => /\ last.raised = "create" /\ ~last.ok
                     /\ CountOp(last.calls, "create") = 1
                     /\ CountOp(last.calls, "install") = 0
                     /\ CountOp(last.calls, "run") = 0
                     /\ LastCallOp = "create"
           /\ (last.fault = "install" /\ CountOp(last.calls, "install") >= 1)
                  => /\ last.raised = "install" /\ ~last.ok
                     /\ CountOp(last.calls, "install") = 1
                     /\ CountOp(last.calls, "run") = 0
                     /\ LastCallOp = "install"
           /\ (~last.exit_ok /\ CountOp(last.calls, "run") >= 1)
                  => /\ last.raised = "run" /\ ~last.ok
                     /\ CountOp(last.calls, "run") = 1
                     /\ LastCallOp = "run"
                     /\ last.returned = NoneVal

C15_Witness ==
    /\ last.op = "run"
    /\ last.fault = "install"
    /\ last.raised = "install"
    /\ ~last.pre.exists
    /\ CountOp(last.calls, "create") = 1

(***************************************************************************)
(* Properties of the build command.                                        *)
(***************************************************************************)
\* C19: build(project_path, force) installs the project into its
\* environment: it ends without error with the environment existing and
\* containing the project, through Project.install with the given force (a
\* forced build calls Environment.install).
C19_BuildInstalls ==
    (last.op = "build" /\ last.project \in DOMAIN venv)
        => /\ error = NoError
           /\ venv[last.project].exists
           /\ venv[last.project].contains
           /\ last.force => CountOp(last.calls, "install") = 1

====
